---- MODULE Spec2Model ----
(***************************************************************************)
(* Model of the ABUNDA knowledge assistant.                                *)
(*                                                                         *)
(*   - AbundaBrain (src/backend/rag_engine.py, src/backend/main.py): the   *)
(*     RAG engine with its flags `active` and `index`, the Qdrant          *)
(*     collection it writes to, and its three operations __init__,         *)
(*     ingest_document and query.  The two files are variants of the same  *)
(*     class; `variant` says which one runs.                               *)
(*   - the Gemini chat service (src/abunda/main.py): the globals           *)
(*     GOOGLE_API_KEY, MODEL_NAME and model, and the operations            *)
(*     get_best_model_name, initialize_model, read_root, chat_endpoint.    *)
(*                                                                         *)
(* Calls into llama_index, Qdrant, Ollama and the Gemini SDK are external: *)
(* each one either returns or raises, chosen nondeterministically.         *)
(***************************************************************************)
EXTENDS Integers, Sequences, FiniteSets, TLC

\* ------------------------------------------------------------------ bounds
\* Documents are numbered 0..MaxParts; the loader yields d parts for document d.
MaxParts == 2
\* The collection is not grown beyond this many points (caps the id counter).
MaxPoints == 4

\* At most this many models are listed by genai.list_models().
MaxModels == 2
\* At most this many turns in a chat request's history.
MaxTurns == 2

\* --------------------------------------------------------------- constants
\* similarity_top_k passed to as_query_engine
similarity_top_k == 3

Variants == {"rag_engine", "backend_main"}
\* How an external call ends: it returns, or raises an error / a timeout.
Outcomes == {"ok", "error", "timeout"}
Files == 0..MaxParts

VARIABLES
  variant,      \* which source file's AbundaBrain is running
  constructed,  \* __init__ has run at least once (brain exists)
  active,       \* self.active
  index,        \* self.index: "None" or "Index"
  collection,   \* points stored in the Qdrant collection COLLECTION_NAME
  nextId,       \* next fresh node id handed out by the loader/index
  initOutcome,  \* how the latest __init__ ended: "online", or the step that raised
  reinitFrom,   \* engine state in which the latest __init__ started
  ingestedOk,   \* an ingest_document returned True since the latest __init__
  prevActive,   \* value of self.active when the latest operation started
  prevIndex,    \* value of self.index when the latest operation started
  prevColl,     \* the collection when the latest operation started
  lastOp,       \* latest operation: "none", "init", "ingest", "query"
  lastArg,      \* document given to the latest ingest_document (-1 otherwise)
  priorOk,      \* document of the operation before the latest one, when that
                \* was an ingest_document that returned True (-1 otherwise)
  lastResult,   \* what the latest operation returned
  lastRaised,   \* the latest operation let an exception escape
  lastCalls     \* external calls the latest operation made, in order

brainVars == <<variant, constructed, active, index, collection, nextId,
               initOutcome, reinitFrom, ingestedOk, prevActive, prevIndex,
               prevColl, lastOp, lastArg, priorOk, lastResult, lastRaised,
               lastCalls>>

VARIABLES
  GOOGLE_API_KEY, \* the environment variable GEMINI_API_KEY is set
  MODEL_NAME,     \* the global MODEL_NAME
  model,          \* the global model: "None", or the model name it was built with
  booted,         \* the module has been imported (the service is up)
  reqOp,          \* latest request: "none", "boot", "read_root", "chat"
  reqHistory,     \* history field of the latest chat request
  reqModel,       \* the global model when the latest request arrived
  respStatus,     \* HTTP status of the latest response (0: none)
  respBody,       \* body of the latest response
  initCount,      \* calls of initialize_model during the latest request
  chatStarted,    \* model.start_chat was called during the latest request
  sentHistory     \* chat_history handed to model.start_chat

chatVars == <<GOOGLE_API_KEY, MODEL_NAME, model, booted, reqOp, reqHistory,
              reqModel, respStatus, respBody, initCount, chatStarted, sentHistory>>

VARIABLES
  th,         \* per request thread: where it is inside ingest_document or
              \* query, and what its latest call did and saw
  committed,  \* points written by the ingest_document calls that returned True
  built       \* an index object has been completed (loaded or created)

concVars == <<th, committed, built>>

VARIABLES
  argKey,      \* get_best_model_name on its own: GOOGLE_API_KEY is set
  argListing,  \* ... what genai.list_models() yields
  bestResult   \* ... the name returned ("none" before the call)

fnVars == <<argKey, argListing, bestResult>>

vars == <<brainVars, chatVars, concVars, fnVars>>

\* ------------------------------------------------------------ return values
\* query's four kinds of answer; `detail` is the exception text put into it.
Msg(kind, detail) == [kind |-> kind, detail |-> detail]
OfflineMsg == Msg("offline", "")
EmptyMsg == Msg("empty", "")
AnswerMsg == Msg("answer", "")
NoResult == Msg("none", "")

\* The string query returns from its except handler.
QueryErrorMsg(v, e) ==
  IF v = "rag_engine" THEN Msg("error", e) ELSE Msg("error", "")

\* ------------------------------------------------------------- the store
\* Qdrant upsert: a point replaces the stored point with the same id.
Upsert(coll, pts) ==
  {p \in coll : \A n \in pts : n.id # p.id} \cup pts

\* Nodes made from the first k parts of document d; ids are fresh because
\* load_data is called without filename_as_id and no ids are passed on.
NewPoints(d, k, nid) ==
  {[id |-> nid + i - 1, doc |-> d, part |-> i] : i \in 1..k}

Min(a, b) == IF a < b THEN a ELSE b

\* ------------------------------------------------------ AbundaBrain.__init__
InitCalls1 == <<"Ollama">>
InitCalls2 == <<"Ollama", "HuggingFaceEmbedding">>
InitCalls3 == <<"Ollama", "HuggingFaceEmbedding", "QdrantClient.get_collections">>
InitCalls4 == Append(InitCalls3, "QdrantVectorStore")
InitCalls5 == Append(InitCalls4, "VectorStoreIndex.from_vector_store")

InitState(act, idx, out, calls) ==
  [active |-> act, index |-> idx, outcome |-> out, calls |-> calls, raised |-> FALSE]

\* Variant of InitCritical: the outer `except` is missing and the exception
\* leaves the constructor.
InitCritical_propagate(step, calls) ==
  [InitState(FALSE, "None", step, calls) EXCEPT !.raised = TRUE]

\* The outer handler `except Exception as e: ... self.active = False`.
InitCritical(step, calls) == InitState(FALSE, "None", step, calls)

\* Variant of InitAfterConnect: a failed load is not caught next to the call
\* and ends in the outer handler.
InitAfterConnect_loadfatal(sc, ld) ==
  IF sc # "ok" THEN InitCritical("storage", InitCalls4)
  ELSE IF ld = "ok" THEN InitState(TRUE, "Index", "online", InitCalls5)
  ELSE InitCritical("load", InitCalls5)

\* Steps 4 and 5: storage context, then the attempt to load the existing
\* index.  sc, ld: outcome of QdrantVectorStore/StorageContext and of
\* VectorStoreIndex.from_vector_store.
InitAfterConnect(sc, ld) ==
  IF sc # "ok" THEN InitCritical("storage", InitCalls4)
  ELSE IF ld = "ok" THEN InitState(TRUE, "Index", "online", InitCalls5)
  ELSE InitState(TRUE, "None", "online", InitCalls5)

\* The whole constructor.  llm, emb, qd: outcome of Ollama(...), of
\* HuggingFaceEmbedding(...) and of QdrantClient(...).get_collections().
\* A Qdrant failure returns early (rag_engine) or is re-raised into the outer
\* handler (backend_main); self.active stays False either way.
InitRun(v, llm, emb, qd, sc, ld) ==
  IF llm # "ok" THEN InitCritical("llm", InitCalls1)
  ELSE IF emb # "ok" THEN InitCritical("embed", InitCalls2)
  ELSE IF qd # "ok" THEN
    IF v = "rag_engine" THEN InitState(FALSE, "None", "qdrant", InitCalls3)
    ELSE InitCritical("qdrant", InitCalls3)
  ELSE InitAfterConnect(sc, ld)

\* ----------------------------------------------- AbundaBrain.ingest_document
IngestState(ret, act, idx, coll, nid, calls) ==
  [ret |-> ret, active |-> act, index |-> idx, collection |-> coll,
   nextId |-> nid, calls |-> calls, raised |-> FALSE]

\* Variant of AfterIngestError: the handler marks the brain as offline.
AfterIngestError_degrade(act) == FALSE

\* self.active after the handler `except Exception as e: logger.error(...);
\* return False`.
AfterIngestError(act) == act

\* Variant of IndexAfterCreate: the new index is built but never assigned.
IndexAfterCreate_unassigned(st) == "None"

\* self.index after `self.index = VectorStoreIndex.from_documents(...)`:
\* assigned only when the call returns.
IndexAfterCreate(st) == IF st = "ok" THEN "Index" ELSE "None"

\* n calls of self.index.insert
Inserts(n) == [i \in 1..n |-> "insert"]

\* The body after the `if not self.active` guard.  d: the document; ld:
\* outcome of load_data; st: outcome of the store step; k: parts already
\* written when the store step raised.
IngestActive(act, idx, coll, nid, d, ld, st, k) ==
  IF ld # "ok" THEN
    IngestState(FALSE, AfterIngestError(act), idx, coll, nid, <<"load_data">>)
  ELSE IF idx = "None" THEN
    IF st = "ok" THEN
      IngestState(TRUE, act, IndexAfterCreate(st),
                  Upsert(coll, NewPoints(d, d, nid)), nid + d,
                  <<"load_data", "from_documents">>)
    ELSE
      IngestState(FALSE, AfterIngestError(act), IndexAfterCreate(st),
                  Upsert(coll, NewPoints(d, k, nid)), nid + k,
                  <<"load_data", "from_documents">>)
  ELSE
    IF st = "ok" \/ d = 0 THEN
      IngestState(TRUE, act, idx, Upsert(coll, NewPoints(d, d, nid)), nid + d,
                  <<"load_data">> \o Inserts(d))
    ELSE
      IngestState(FALSE, AfterIngestError(act), idx,
                  Upsert(coll, NewPoints(d, k, nid)), nid + k,
                  <<"load_data">> \o Inserts(k + 1))

\* Variant of IngestRun: the `if not self.active` guard is missing.
IngestRun_unguarded(act, idx, coll, nid, d, ld, st, k) ==
  IngestActive(act, idx, coll, nid, d, ld, st, k)

IngestRun(act, idx, coll, nid, d, ld, st, k) ==
  IF ~act THEN IngestState(FALSE, act, idx, coll, nid, <<>>)
  ELSE IngestActive(act, idx, coll, nid, d, ld, st, k)

\* --------------------------------------------------------- AbundaBrain.query
QueryState(msg, act, calls) ==
  [ret |-> msg, active |-> act, calls |-> calls, raised |-> FALSE]

\* self.active after the handler `except Exception as e: logger.error(...);
\* return <message>`.
AfterQueryError(act) == act

\* The body after the `if not self.active` guard.  eng, ret, gen: outcome of
\* as_query_engine, of the retrieval and of the generation inside
\* query_engine.query; callGen: whether the library calls the LLM when the
\* retrieval came back empty.
QueryActive(v, act, idx, coll, eng, ret, gen, callGen) ==
  IF idx = "None" THEN QueryState(EmptyMsg, act, <<>>)
  ELSE IF eng # "ok" THEN
    QueryState(QueryErrorMsg(v, eng), AfterQueryError(act), <<"as_query_engine">>)
  ELSE IF ret # "ok" THEN
    QueryState(QueryErrorMsg(v, ret), AfterQueryError(act),
               <<"as_query_engine", "retrieve">>)
  ELSE IF Min(similarity_top_k, Cardinality(coll)) = 0 /\ ~callGen THEN
    QueryState(AnswerMsg, act, <<"as_query_engine", "retrieve">>)
  ELSE IF gen # "ok" THEN
    QueryState(QueryErrorMsg(v, gen), AfterQueryError(act),
               <<"as_query_engine", "retrieve", "generate">>)
  ELSE QueryState(AnswerMsg, act, <<"as_query_engine", "retrieve", "generate">>)

\* Variant of QueryRun: the `if not self.active` guard is missing.
QueryRun_unguarded(v, act, idx, coll, eng, ret, gen, callGen) ==
  QueryActive(v, act, idx, coll, eng, ret, gen, callGen)

QueryRun(v, act, idx, coll, eng, ret, gen, callGen) ==
  IF ~act THEN QueryState(OfflineMsg, act, <<>>)
  ELSE QueryActive(v, act, idx, coll, eng, ret, gen, callGen)

\* ------------------------------------------------------------------ actions
InitBrain ==
  /\ variant \in Variants
  /\ constructed = FALSE
  /\ active = FALSE
  /\ index = "None"
  /\ collection = {}
  /\ nextId = 1
  /\ initOutcome = "none"
  /\ reinitFrom = "none"
  /\ ingestedOk = FALSE
  /\ prevActive = FALSE
  /\ prevIndex = "None"
  /\ prevColl = {}
  /\ lastOp = "none"
  /\ lastArg = -1
  /\ priorOk = -1
  /\ lastResult = NoResult
  /\ lastRaised = FALSE
  /\ lastCalls = <<>>

Snapshot ==
  /\ priorOk' = (IF lastOp = "ingest" /\ lastResult.kind = "True" THEN lastArg ELSE -1)
  /\ prevActive' = active
  /\ prevIndex' = index
  /\ prevColl' = collection

\* The outcomes of a call that is reached; a call that is not reached has
\* no outcome to choose and is held at "ok".
OutcomesIf(reached) == IF reached THEN Outcomes ELSE {"ok"}

\* brain = AbundaBrain(): the constructor runs, or runs again.
AbundaBrain_init ==
  \E llm \in Outcomes :
  \E emb \in OutcomesIf(llm = "ok") :
  \E qd \in OutcomesIf(llm = "ok" /\ emb = "ok") :
  \E sc \in OutcomesIf(llm = "ok" /\ emb = "ok" /\ qd = "ok") :
  \E ld \in OutcomesIf(llm = "ok" /\ emb = "ok" /\ qd = "ok" /\ sc = "ok") :
    LET r == InitRun(variant, llm, emb, qd, sc, ld) IN
    /\ constructed' = TRUE
    /\ active' = r.active
    /\ index' = r.index
    /\ initOutcome' = r.outcome
    /\ reinitFrom' = (IF ~constructed THEN "uninitialized"
                      ELSE IF active THEN "active" ELSE "degraded")
    /\ ingestedOk' = FALSE
    /\ Snapshot
    /\ lastOp' = "init"
    /\ lastArg' = -1
    /\ lastResult' = NoResult
    /\ lastRaised' = r.raised
    /\ lastCalls' = r.calls
    /\ UNCHANGED <<variant, collection, nextId>>
    /\ UNCHANGED <<chatVars, concVars, fnVars>>

\* brain.ingest_document(file_path)
ingest_document ==
  \E d \in Files :
  \E ld \in OutcomesIf(active) :
  \E st \in OutcomesIf(active /\ ld = "ok" /\ (index = "None" \/ d > 0)) :
  \E k \in (IF st = "ok" \/ d = 0 THEN {0} ELSE 0..(d - 1)) :
    /\ constructed
    /\ nextId - 1 + d <= MaxPoints
    /\ LET r == IngestRun(active, index, collection, nextId, d, ld, st, k) IN
       /\ active' = r.active
       /\ index' = r.index
       /\ collection' = r.collection
       /\ nextId' = r.nextId
       /\ ingestedOk' = (ingestedOk \/ r.ret)
       /\ lastResult' = Msg(IF r.ret THEN "True" ELSE "False", "")
       /\ lastRaised' = r.raised
       /\ lastCalls' = r.calls
    /\ Snapshot
    /\ lastOp' = "ingest"
    /\ lastArg' = d
    /\ UNCHANGED <<variant, constructed, initOutcome, reinitFrom>>
    /\ UNCHANGED <<chatVars, concVars, fnVars>>

\* brain.query(question)
query ==
  \E eng \in OutcomesIf(active /\ index # "None") :
  \E ret \in OutcomesIf(active /\ index # "None" /\ eng = "ok") :
  \E callGen \in (IF active /\ index # "None" /\ eng = "ok" /\ ret = "ok"
                      /\ collection = {}
                   THEN BOOLEAN ELSE {TRUE}) :
  \E gen \in OutcomesIf(active /\ index # "None" /\ eng = "ok" /\ ret = "ok"
                         /\ callGen) :
    /\ constructed
    /\ LET r == QueryRun(variant, active, index, collection, eng, ret, gen, callGen) IN
       /\ active' = r.active
       /\ lastResult' = r.ret
       /\ lastRaised' = r.raised
       /\ lastCalls' = r.calls
    /\ Snapshot
    /\ lastOp' = "query"
    /\ lastArg' = -1
    /\ UNCHANGED <<variant, constructed, index, collection, nextId,
                   initOutcome, reinitFrom, ingestedOk>>
    /\ UNCHANGED <<chatVars, concVars, fnVars>>


\* =========================================================== Gemini service
\* ------------------------------------------------------- get_best_model_name
DefaultModel == "models/gemini-1.5-flash"

priorities ==
  <<"models/gemini-1.5-pro", "models/gemini-1.5-flash", "models/gemini-pro">>

\* Names genai.list_models() may report (with generateContent support).
ModelNames ==
  {"models/gemini-1.5-pro-latest", "models/gemini-1.5-flash",
   "models/gemini-pro", "models/gemini-pro-vision", "models/gemini-2.0-flash"}

\* `priority in m`: the priority string occurs inside the model name.
NameContains(m, priority) ==
  \/ m = priority
  \/ m = "models/gemini-1.5-pro-latest" /\ priority = "models/gemini-1.5-pro"
  \/ m = "models/gemini-pro-vision" /\ priority = "models/gemini-pro"

\* What genai.list_models() yields: it raises, or reports a list of names.
Listings ==
  {[raised |-> TRUE, names |-> <<>>]} \cup
  {[raised |-> FALSE, names |-> l] :
     l \in UNION {[1..n -> ModelNames] : n \in 0..MaxModels}}

\* Variant of FirstMatch: the last matching name is taken.
FirstMatch_last(available_models, priority) ==
  LET hits == {i \in 1..Len(available_models) :
                 NameContains(available_models[i], priority)} IN
  IF hits = {} THEN "None"
  ELSE available_models[CHOOSE i \in hits : \A j \in hits : i >= j]

\* next((m for m in available_models if priority in m), None)
FirstMatch(available_models, priority) ==
  LET hits == {i \in 1..Len(available_models) :
                 NameContains(available_models[i], priority)} IN
  IF hits = {} THEN "None"
  ELSE available_models[CHOOSE i \in hits : \A j \in hits : i <= j]

RECURSIVE BestFrom(_, _)
\* the loop `for priority in priorities`, from the p-th priority on
BestFrom(available_models, p) ==
  IF p > Len(priorities) THEN
    IF Len(available_models) > 0 THEN available_models[1] ELSE DefaultModel
  ELSE IF FirstMatch(available_models, priorities[p]) # "None" THEN
    FirstMatch(available_models, priorities[p])
  ELSE BestFrom(available_models, p + 1)

get_best_model_name(key, listing) ==
  IF ~key THEN DefaultModel
  ELSE IF listing.raised THEN DefaultModel
  ELSE BestFrom(listing.names, 1)

\* The names get_best_model_name can return.
BestNamesWithKey == {get_best_model_name(TRUE, l) : l \in Listings}
BestNamesNoKey == {get_best_model_name(FALSE, l) : l \in Listings}
BestNames(key) == IF key THEN BestNamesWithKey ELSE BestNamesNoKey

\* ---------------------------------------------------------- initialize_model
\* Variant of initialize_model: the name is chosen again on every call, also
\* when a model is already set.
initialize_model_rechoose(mdl, name, best, gm) ==
  IF gm = "ok" THEN [model |-> best, MODEL_NAME |-> best]
  ELSE [model |-> mdl, MODEL_NAME |-> best]

\* best: what get_best_model_name returns if it is called; gm: outcome of
\* genai.GenerativeModel(...).  Yields the globals after the call.
initialize_model(mdl, name, best, gm) ==
  LET chosen == IF mdl = "None" THEN best ELSE name IN
  IF gm = "ok" THEN [model |-> chosen, MODEL_NAME |-> chosen]
  ELSE [model |-> mdl, MODEL_NAME |-> chosen]

\* ------------------------------------------------------------------ read_root
OnlineStatus == "Abunda AI Brain Online"

read_root_body(name) == [status |-> OnlineStatus, model |-> name]

\* -------------------------------------------------------------- chat_endpoint
Roles == {"user", "assistant"}
Contents == {"", "hola"}
Turns == [role : Roles, content : Contents]
Histories == UNION {[1..n -> Turns] : n \in 0..MaxTurns}

RECURSIVE chat_history_keepempty(_)
\* Variant of chat_history: turns with empty content are not dropped.
chat_history_keepempty(history) ==
  IF history = <<>> THEN <<>>
  ELSE LET msg == Head(history)
           role == IF msg.role = "user" THEN "user" ELSE "model" IN
       <<[role |-> role, parts |-> <<msg.content>>]>>
         \o chat_history_keepempty(Tail(history))

RECURSIVE chat_history(_)
\* the loop that prepares the history for the SDK
chat_history(history) ==
  IF history = <<>> THEN <<>>
  ELSE LET msg == Head(history)
           role == IF msg.role = "user" THEN "user" ELSE "model" IN
       (IF msg.content # "" THEN <<[role |-> role, parts |-> <<msg.content>>]>>
        ELSE <<>>) \o chat_history(Tail(history))

ChatOk(name) == [kind |-> "response", detail |-> "", used_model |-> name]
ChatError(cause) == [kind |-> "error", detail |-> cause, used_model |-> ""]

NoKeyDetail == "API Key no configurada en Heroku."
InitFailDetail == "Fallo critico al iniciar el modelo Gemini."

ChatState(status, body, g, n, started, sent) ==
  [status |-> status, body |-> body, model |-> g.model,
   MODEL_NAME |-> g.MODEL_NAME, inits |-> n, started |-> started, sent |-> sent]

\* Variant of ChatExcept: the handler reports the failure without calling
\* initialize_model.
ChatExcept_noreinit(g, n, cause, started, sent, i) ==
  ChatState(500, ChatError(cause), g, n, started, sent)

\* The handler `except Exception as e`: one more initialize_model, then a
\* 500 whose detail carries str(e).  g: the globals; n: initialize_model
\* calls so far; i: inputs of the handler's initialize_model.
ChatExcept(g, n, cause, started, sent, i) ==
  ChatState(500, ChatError(cause),
            initialize_model(g.model, g.MODEL_NAME, i.best, i.gm),
            n + 1, started, sent)

\* The try block from the history loop on.  sc, sm: outcome of
\* model.start_chat and of chat.send_message / response.text.
ChatTalk(g, n, history, sc, sm, i) ==
  IF sc # "ok" THEN ChatExcept(g, n, sc, TRUE, chat_history(history), i)
  ELSE IF sm # "ok" THEN ChatExcept(g, n, sm, TRUE, chat_history(history), i)
  ELSE ChatState(200, ChatOk(g.MODEL_NAME), g, n, TRUE, chat_history(history))

\* The whole handler.  i1: inputs of the initialize_model in the try block;
\* i2: inputs of the one in the except handler.
chat_run(key, mdl, name, history, i1, i2, sc, sm) ==
  LET g0 == [model |-> mdl, MODEL_NAME |-> name] IN
  IF ~key THEN ChatExcept(g0, 0, NoKeyDetail, FALSE, <<>>, i2)
  ELSE IF mdl = "None" THEN
    LET g1 == initialize_model(mdl, name, i1.best, i1.gm) IN
    IF g1.model = "None" THEN ChatExcept(g1, 1, InitFailDetail, FALSE, <<>>, i2)
    ELSE ChatTalk(g1, 1, history, sc, sm, i2)
  ELSE ChatTalk(g0, 0, history, sc, sm, i2)

InitInputs(key) == [best : BestNames(key), gm : Outcomes]

\* ------------------------------------------------------------------ actions
InitChat ==
  /\ GOOGLE_API_KEY \in BOOLEAN
  /\ MODEL_NAME = DefaultModel
  /\ model = "None"
  /\ booted = FALSE
  /\ reqOp = "none"
  /\ reqHistory = <<>>
  /\ reqModel = "None"
  /\ respStatus = 0
  /\ respBody = [kind |-> "none"]
  /\ initCount = 0
  /\ chatStarted = FALSE
  /\ sentHistory = <<>>

\* Import of the module: MODEL_NAME = get_best_model_name(); model = None;
\* if GOOGLE_API_KEY: initialize_model()
boot ==
  /\ ~booted
  /\ \E first \in BestNames(GOOGLE_API_KEY), i \in InitInputs(GOOGLE_API_KEY) :
       LET g == IF GOOGLE_API_KEY THEN initialize_model("None", first, i.best, i.gm)
                ELSE [model |-> "None", MODEL_NAME |-> first] IN
       /\ model' = g.model
       /\ MODEL_NAME' = g.MODEL_NAME
       /\ initCount' = (IF GOOGLE_API_KEY THEN 1 ELSE 0)
  /\ booted' = TRUE
  /\ reqOp' = "boot"
  /\ UNCHANGED <<GOOGLE_API_KEY, reqHistory, reqModel, respStatus, respBody,
                 chatStarted, sentHistory>>
  /\ UNCHANGED <<brainVars, concVars, fnVars>>

\* GET /
read_root ==
  /\ booted
  /\ reqOp' = "read_root"
  /\ respStatus' = 200
  /\ respBody' = read_root_body(MODEL_NAME)
  /\ reqHistory' = <<>>
  /\ reqModel' = model
  /\ initCount' = 0
  /\ chatStarted' = FALSE
  /\ sentHistory' = <<>>
  /\ UNCHANGED <<GOOGLE_API_KEY, MODEL_NAME, model, booted>>
  /\ UNCHANGED <<brainVars, concVars, fnVars>>

\* An input the handler does not read on the path taken is held at one value.
NoInit == [best |-> DefaultModel, gm |-> "ok"]

\* Inputs of one initialize_model call; get_best_model_name is only called
\* when model is None.
InitInputsFor(key, mdl) ==
  IF mdl = "None" THEN InitInputs(key)
  ELSE [best : {DefaultModel}, gm : Outcomes]

\* POST /api/chat
chat_endpoint ==
  /\ booted
  /\ LET first == GOOGLE_API_KEY /\ model = "None" IN
     \E i1 \in (IF first THEN InitInputs(GOOGLE_API_KEY) ELSE {NoInit}) :
     LET m1 == IF first
               THEN initialize_model(model, MODEL_NAME, i1.best, i1.gm).model
               ELSE model
         talks == GOOGLE_API_KEY /\ m1 # "None" IN
     \E history \in (IF talks THEN Histories ELSE {<<>>}),
        sc \in (IF talks THEN Outcomes ELSE {"ok"}) :
     \E sm \in (IF talks /\ sc = "ok" THEN Outcomes ELSE {"ok"}) :
     \E i2 \in (IF talks /\ sc = "ok" /\ sm = "ok" THEN {NoInit}
                ELSE InitInputsFor(GOOGLE_API_KEY, m1)) :
              /\ LET r == chat_run(GOOGLE_API_KEY, model, MODEL_NAME, history,
                                   i1, i2, sc, sm) IN
                 /\ model' = r.model
                 /\ MODEL_NAME' = r.MODEL_NAME
                 /\ reqHistory' = history
                 /\ respStatus' = r.status
                 /\ respBody' = r.body
                 /\ initCount' = r.inits
                 /\ chatStarted' = r.started
                 /\ sentHistory' = r.sent
  /\ reqOp' = "chat"
  /\ reqModel' = model
  /\ UNCHANGED <<GOOGLE_API_KEY, booted>>
  /\ UNCHANGED <<brainVars, concVars, fnVars>>

\* =================================================== concurrent requests
\* Request handlers run in threads of one process and share `brain`.
\* ingest_document and query are cut where they read or write what the
\* other threads can see: self.index and the Qdrant collection.
Threads == {1, 2}

IdleThread ==
  [pc |-> "idle", op |-> "none", doc |-> -1, done |-> 0, mine |-> {},
   res |-> "none", raised |-> FALSE, idx |-> "None", need |-> {},
   got |-> FALSE, seen |-> {}, partial |-> FALSE, raced |-> FALSE]

Ingesting(r) == r.pc \in {"i_test", "i_create", "i_insert"}
Creating(r) == r.pc = "i_create"

\* Parts the running ingest_document calls have still to write.
RECURSIVE PendingParts(_)
PendingParts(ts) ==
  IF ts = {} THEN 0
  ELSE LET t == CHOOSE x \in ts : TRUE IN
       (IF Ingesting(th[t]) THEN th[t].doc - th[t].done ELSE 0)
         + PendingParts(ts \ {t})

\* Variant of IndexDuringCreate: the new index object is assigned to
\* self.index first and filled afterwards.
IndexDuringCreate_early == "Index"

\* self.index while VectorStoreIndex.from_documents is running: the
\* assignment happens when the call has returned.
IndexDuringCreate == "None"

\* Variant of StoreAdd: building a new index starts from an emptied
\* collection.
StoreAdd_recreate(coll, pts, branch, done) ==
  IF branch = "i_create" /\ done = 0 THEN pts ELSE Upsert(coll, pts)

\* The collection after from_documents / insert has written the points pts
\* (branch: which of the two; done: parts this call wrote before).
StoreAdd(coll, pts, branch, done) == Upsert(coll, pts)

ConcUnchanged ==
  UNCHANGED <<variant, constructed, active, initOutcome, reinitFrom, ingestedOk,
              prevActive, prevIndex, prevColl, lastOp, lastArg, priorOk,
              lastResult, lastRaised, lastCalls>>

\* ingest_document up to the test of self.index: the guard and load_data.
ingest_begin(t) ==
  /\ th[t].pc = "idle"
  /\ \E d \in Files :
     \E ld \in OutcomesIf(active) :
       /\ nextId - 1 + PendingParts(Threads) + d <= MaxPoints
       /\ th' = [th EXCEPT ![t] =
            [IdleThread EXCEPT
               !.op = "ingest", !.doc = d,
               !.pc = IF active /\ ld = "ok" THEN "i_test" ELSE "idle",
               !.res = IF active /\ ld = "ok" THEN "none" ELSE "False"]]
  /\ UNCHANGED <<index, collection, nextId, committed, built>>
  /\ ConcUnchanged
  /\ UNCHANGED <<chatVars, fnVars>>

\* `if self.index is None`: the thread takes the create or the insert branch.
ingest_test(t) ==
  /\ th[t].pc = "i_test"
  /\ IF index = "None"
     THEN LET race == \E u \in Threads \ {t} : Creating(th[u]) IN
          /\ th' = [u \in Threads |->
                     IF u = t THEN [th[u] EXCEPT !.pc = "i_create", !.raced = race]
                     ELSE IF Creating(th[u]) THEN [th[u] EXCEPT !.raced = TRUE]
                     ELSE th[u]]
          /\ index' = IndexDuringCreate
     ELSE /\ th' = [th EXCEPT ![t].pc = "i_insert"]
          /\ index' = index
  /\ UNCHANGED <<collection, nextId, committed, built>>
  /\ ConcUnchanged
  /\ UNCHANGED <<chatVars, fnVars>>

\* One part is embedded and written (inside from_documents, or one
\* self.index.insert), or the call raises and ingest_document returns False.
ingest_write(t) ==
  /\ th[t].pc \in {"i_create", "i_insert"}
  /\ th[t].done < th[t].doc
  /\ \E st \in Outcomes :
       IF st = "ok"
       THEN LET pt == [id |-> nextId, doc |-> th[t].doc, part |-> th[t].done + 1] IN
            /\ collection' = StoreAdd(collection, {pt}, th[t].pc, th[t].done)
            /\ nextId' = nextId + 1
            /\ th' = [th EXCEPT ![t].done = @ + 1, ![t].mine = @ \cup {pt}]
       ELSE /\ th' = [th EXCEPT ![t].pc = "idle", ![t].res = "False"]
            /\ UNCHANGED <<collection, nextId>>
  /\ UNCHANGED <<index, committed, built>>
  /\ ConcUnchanged
  /\ UNCHANGED <<chatVars, fnVars>>

\* All parts are written: from_documents returns and self.index is assigned
\* (create branch), or the loop ends (insert branch); return True.  An empty
\* document list can still make from_documents raise.
ingest_end(t) ==
  /\ th[t].pc \in {"i_create", "i_insert"}
  /\ th[t].done = th[t].doc
  /\ \E st \in OutcomesIf(th[t].pc = "i_create" /\ th[t].doc = 0) :
       /\ th' = [th EXCEPT ![t].pc = "idle",
                           ![t].res = IF st = "ok" THEN "True" ELSE "False"]
       /\ index' = IF th[t].pc = "i_create" /\ IndexAfterCreate(st) = "Index"
                   THEN "Index" ELSE index
       /\ built' = (built \/ (th[t].pc = "i_create" /\ st = "ok"))
       /\ committed' = IF st = "ok" THEN committed \cup th[t].mine ELSE committed
  /\ UNCHANGED <<collection, nextId>>
  /\ ConcUnchanged
  /\ UNCHANGED <<chatVars, fnVars>>

\* query up to the try block: the guard and `if self.index is None`.
query_begin(t) ==
  /\ th[t].pc = "idle"
  /\ LET r == QueryRun(variant, active, "None", collection, "ok", "ok", "ok", TRUE) IN
     th' = [th EXCEPT ![t] =
       [IdleThread EXCEPT
          !.op = "query", !.need = committed, !.idx = index,
          !.pc = IF active /\ index # "None" THEN "q_try" ELSE "idle",
          !.res = IF active /\ index # "None" THEN "none" ELSE r.ret.kind,
          !.raised = r.raised]]
  /\ UNCHANGED <<index, collection, nextId, committed, built>>
  /\ ConcUnchanged
  /\ UNCHANGED <<chatVars, fnVars>>

\* The try block of query: as_query_engine, retrieval from the collection as
\* it is now, generation.
query_try(t) ==
  /\ th[t].pc = "q_try"
  /\ \E eng \in Outcomes :
     \E ret \in OutcomesIf(eng = "ok") :
     \E callGen \in (IF eng = "ok" /\ ret = "ok" /\ collection = {}
                      THEN BOOLEAN ELSE {TRUE}) :
     \E gen \in OutcomesIf(eng = "ok" /\ ret = "ok" /\ callGen) :
       LET r == QueryActive(variant, active, th[t].idx, collection,
                            eng, ret, gen, callGen)
           retrieved == eng = "ok" /\ ret = "ok" IN
       th' = [th EXCEPT
                ![t].pc = "idle",
                ![t].res = r.ret.kind,
                ![t].raised = r.raised,
                ![t].got = retrieved,
                ![t].seen = IF retrieved THEN collection ELSE {},
                ![t].partial =
                   (retrieved /\ \E u \in Threads \ {t} :
                      /\ Ingesting(th[u])
                      /\ th[u].done > 0
                      /\ th[u].done < th[u].doc)]
  /\ UNCHANGED <<index, collection, nextId, committed, built>>
  /\ ConcUnchanged
  /\ UNCHANGED <<chatVars, fnVars>>

InitFn ==
  /\ argKey = FALSE
  /\ argListing = [raised |-> TRUE, names |-> <<>>]
  /\ bestResult = "none"

InitConc ==
  /\ th = [t \in Threads |-> IdleThread]
  /\ committed = {}
  /\ built = FALSE

ChatIdle == InitChat /\ GOOGLE_API_KEY = FALSE
BrainIdle == InitBrain /\ variant = "rag_engine"

Init == InitBrain /\ ChatIdle /\ InitConc /\ InitFn

Next == AbundaBrain_init \/ ingest_document \/ query

Spec == Init /\ [][Next]_vars

\* The Gemini service on its own.
InitService == BrainIdle /\ InitChat /\ InitConc /\ InitFn

NextService == boot \/ read_root \/ chat_endpoint

SpecService == InitService /\ [][NextService]_vars

\* Concurrent requests on a brain whose constructor ended Active, with the
\* existing index loaded or not.  The two source files do not differ in the
\* steps taken here, so one variant is run.
InitThreads ==
  /\ variant = "rag_engine"
  /\ constructed = TRUE
  /\ active = TRUE
  /\ index \in {"None", "Index"}
  /\ collection = {}
  /\ nextId = 1
  /\ initOutcome = "online"
  /\ reinitFrom = "uninitialized"
  /\ ingestedOk = FALSE
  /\ prevActive = FALSE
  /\ prevIndex = "None"
  /\ prevColl = {}
  /\ lastOp = "init"
  /\ lastArg = -1
  /\ priorOk = -1
  /\ lastResult = NoResult
  /\ lastRaised = FALSE
  /\ lastCalls = InitCalls5
  /\ ChatIdle
  /\ th = [t \in Threads |-> IdleThread]
  /\ committed = {}
  /\ built = (index = "Index")
  /\ InitFn

NextThreads ==
  \E t \in Threads :
    \/ ingest_begin(t)
    \/ ingest_test(t)
    \/ ingest_write(t)
    \/ ingest_end(t)
    \/ query_begin(t)
    \/ query_try(t)

SpecThreads == InitThreads /\ [][NextThreads]_vars

\* get_best_model_name on its own, for every key setting and listing.
InitBest ==
  /\ BrainIdle
  /\ ChatIdle
  /\ InitConc
  /\ argKey \in BOOLEAN
  /\ argListing \in Listings
  /\ bestResult = "none"

call_best ==
  /\ bestResult = "none"
  /\ bestResult' = get_best_model_name(argKey, argListing)
  /\ UNCHANGED <<argKey, argListing>>
  /\ UNCHANGED <<brainVars, chatVars, concVars>>

NextBest == call_best

SpecBest == InitBest /\ [][NextBest]_vars

TypeOK ==
  /\ variant \in Variants
  /\ active \in BOOLEAN
  /\ index \in {"None", "Index"}
  /\ nextId \in 1..(MaxPoints + 1)
  /\ Cardinality(collection) <= MaxPoints

\* ================================================================== claims
IngestFailed == lastOp = "ingest" /\ lastResult.kind = "False"
IngestSucceeded == lastOp = "ingest" /\ lastResult.kind = "True"
\* The latest ingest_document got as far as the vector store.
IngestReachedStore == lastOp = "ingest" /\ Len(lastCalls) >= 2
QueryFailed == lastOp = "query" /\ lastResult.kind = "error"

\* C1: a query made while self.active is False returns the offline message
\* as a normal value: no exception escapes and no external call (vector
\* index, generation provider) is made, whatever happened before.
C1_OfflineQuery ==
  (lastOp = "query" /\ ~prevActive) =>
    /\ lastResult = OfflineMsg
    /\ ~lastRaised
    /\ lastCalls = <<>>

\* An inactive brain is queried although the collection already holds points
\* from an earlier, active period.
C1_Witness ==
  /\ lastOp = "query"
  /\ ~prevActive
  /\ collection # {}
  /\ lastResult = OfflineMsg

\* C2 (as claimed): on an Active brain since whose initialisation no ingest
\* has succeeded, and whose collection is empty, query returns the
\* 'no knowledge' message and the generation provider is not called, on
\* every initialisation path that ends Active.
C2_FreshQueryIsEmpty ==
  (lastOp = "query" /\ prevActive /\ ~ingestedOk /\ collection = {}) =>
    /\ lastResult = EmptyMsg
    /\ \A i \in 1..Len(lastCalls) : lastCalls[i] # "generate"

\* C3: when Qdrant is unreachable during __init__, the constructor does not
\* raise and leaves active False and index absent; every ingest_document on
\* that brain returns False without raising, without loading the document
\* and without touching the collection.
C3_StoreDownAtInit ==
  (initOutcome = "qdrant") =>
    /\ ~active
    /\ index = "None"
    /\ ~lastRaised
    /\ lastOp = "ingest" =>
         /\ lastResult.kind = "False"
         /\ lastCalls = <<>>
         /\ collection = prevColl

\* An ingest_document has been tried on a brain whose constructor could not
\* reach Qdrant.
C3_Witness ==
  /\ initOutcome = "qdrant"
  /\ lastOp = "ingest"
  /\ lastArg > 0
  /\ lastResult.kind = "False"

\* C4 (as claimed): when an Active brain's call to the vector store or to
\* the generation provider fails inside ingest_document or query, the brain
\* becomes Degraded (active False).
C4_FailureDegrades ==
  (prevActive /\ (QueryFailed \/ (IngestFailed /\ IngestReachedStore))) =>
    ~active

C6_LazyCreationStep ==
  /\ (lastOp' = "ingest" /\ lastResult'.kind = "True") => index' = "Index"
  /\ (lastOp' = "ingest" /\ lastResult'.kind = "False" /\ index = "None") =>
       index' = "None"
  /\ (lastOp' \in {"ingest", "query"} /\ index = "Index") => index' = "Index"
  /\ (lastOp' = "query" /\ ingestedOk) =>
       /\ lastResult'.kind # "empty"
       /\ Len(lastCalls') >= 1

C6_LazyCreation == [][C6_LazyCreationStep]_vars

\* The index was absent and a successful ingest_document created it.
C6_Witness ==
  /\ IngestSucceeded
  /\ prevActive
  /\ prevIndex = "None"
  /\ index = "Index"
  /\ lastArg > 0

\* C7 (as claimed): ingest_document returns True only if every part of the
\* document was stored, and when it returns False the collection is what it
\* was before the call.
C7_NoPartialCommit ==
  /\ IngestSucceeded => Cardinality(collection \ prevColl) = lastArg
  /\ IngestFailed => collection = prevColl

\* C8 (as claimed): ingesting the same document twice in succession leaves
\* as many points in the collection as ingesting it once.
C8_ReingestSameCount ==
  (IngestSucceeded /\ priorOk = lastArg) =>
    Cardinality(collection) = Cardinality(prevColl)

\* C9: a failing ingest_document (loader, embedding or upsert error) or a
\* failing query (error or timeout of a dependency) leaves self.active as it
\* was before the call.
C9_FailureKeepsState ==
  (IngestFailed \/ QueryFailed) => active = prevActive

\* A query on an Active brain ran into a timeout and the brain is still
\* Active.
C9_Witness ==
  /\ variant = "rag_engine"
  /\ lastOp = "query"
  /\ lastResult = Msg("error", "timeout")
  /\ prevActive
  /\ active

\* C10 (as claimed): the status returned by GET / reflects the engine state:
\* while the model is not initialised or the API key is missing it does not
\* report the service as online.
C10_StatusReflectsState ==
  (reqOp = "read_root" /\ (model = "None" \/ ~GOOGLE_API_KEY)) =>
    respBody.status # OnlineStatus


\* C11: no exception of a dependency leaves the engine.  Whatever call
\* fails, the constructor ends with a state flag (active is True exactly when
\* every connection step succeeded), ingest_document returns True or False,
\* and query returns one of its four kinds of message.
C11_NoEscape ==
  /\ ~lastRaised
  /\ lastOp = "init" =>
       /\ initOutcome \in {"online", "llm", "embed", "qdrant", "storage"}
       /\ active = (initOutcome = "online")
  /\ lastOp = "ingest" => lastResult.kind \in {"True", "False"}
  /\ lastOp = "query" => lastResult.kind \in {"offline", "empty", "answer", "error"}

\* The constructor ran into a failing storage set-up and still returned.
C11_Witness ==
  /\ lastOp = "init"
  /\ initOutcome = "storage"
  /\ ~active
  /\ ~lastRaised


\* C12 (as claimed): a chat request calls initialize_model only after a
\* failure in that request and at most once; a request that fails answers
\* with the failure; a request that succeeds calls it not at all.
C12_OneReinitAfterFailure ==
  reqOp = "chat" =>
    /\ initCount <= 1
    /\ initCount = 1 => respStatus = 500
    /\ respStatus = 200 => initCount = 0

\* C12 (amended): a chat request calls initialize_model at most twice: once
\* at its start when model is None, and once in the except handler after a
\* failure in that request.  Every failing request calls it in the handler
\* and still answers 500 in the same turn, also when that call set the
\* model; a request that finds the model set and succeeds calls it not at
\* all.
C12_LazyInitAndReinit ==
  reqOp = "chat" =>
    /\ respStatus \in {200, 500}
    /\ initCount =
         (IF GOOGLE_API_KEY /\ reqModel = "None" THEN 1 ELSE 0) +
         (IF respStatus = 500 THEN 1 ELSE 0)
    /\ (respStatus = 200 /\ reqModel # "None") => initCount = 0

\* A request found model None, failed to initialise it, re-initialised in
\* the handler with success, and was still answered with the failure.
C12_Witness ==
  /\ reqOp = "chat"
  /\ GOOGLE_API_KEY
  /\ reqModel = "None"
  /\ initCount = 2
  /\ model # "None"
  /\ respStatus = 500


\* C13 (as claimed): when the query fails, the returned message is the same
\* for every underlying error: it carries no exception text.
C13_GenericFailureMessage ==
  QueryFailed => lastResult = Msg("error", "")


\* C14 (as claimed): without GEMINI_API_KEY the model handle is never
\* established, no chat session is started with the provider, and every
\* chat request ends with an error.
C14_NoKeyNeverUsable ==
  ~GOOGLE_API_KEY =>
    /\ model = "None"
    /\ ~chatStarted
    /\ reqOp = "chat" => respStatus = 500


\* C15 (as claimed): a query that runs while an ingest_document is in flight
\* never raises, uses an index only once it has been completed, retrieves
\* from a collection that holds everything the ingests that had returned
\* True before it started have written, and sees of an in-flight ingest
\* either nothing or all of its parts.
C15_AllOrNothingVisibility ==
  \A t \in Threads :
    th[t].op = "query" =>
      /\ ~th[t].raised
      /\ th[t].idx = "Index" => built
      /\ th[t].got => th[t].need \subseteq th[t].seen
      /\ th[t].got => ~th[t].partial

\* C15 (amended): as above, but a query may see some of the parts of an
\* in-flight ingest.  It never raises; it answers 'no knowledge' exactly when
\* it found self.index absent; it uses an index only once that index has
\* been completed; and its retrieval reads a collection that holds every
\* point written by the ingests that had returned True before it started.
C15_EventualVisibility ==
  \A t \in Threads :
    th[t].op = "query" =>
      /\ ~th[t].raised
      /\ th[t].idx = "Index" => built
      /\ (th[t].pc = "idle" /\ th[t].idx = "None") => th[t].res = "empty"
      /\ th[t].res = "empty" => th[t].idx = "None"
      /\ th[t].got => th[t].need \subseteq th[t].seen

\* A query started after one ingest had returned True and retrieved while
\* another ingest had written only some of its parts.
C15_Witness ==
  \E t \in Threads :
    /\ th[t].op = "query"
    /\ th[t].res = "answer"
    /\ th[t].need # {}
    /\ th[t].partial

\* C19: when ingest_document calls have returned True, also two that both
\* took the create branch at the same time, self.index is present and the
\* collection holds every part of each of their documents.
C19_RacingCreatesKeepBoth ==
  \A t \in Threads :
    (th[t].op = "ingest" /\ th[t].pc = "idle" /\ th[t].res = "True") =>
      /\ index = "Index"
      /\ th[t].mine \subseteq collection
      /\ Cardinality(th[t].mine) = th[t].doc

\* Both threads were in the create branch at the same time and both
\* ingest_document calls returned True.
C19_Witness ==
  \A t \in Threads :
    /\ th[t].op = "ingest"
    /\ th[t].pc = "idle"
    /\ th[t].res = "True"
    /\ th[t].raced
    /\ th[t].doc > 0


\* C16: get_best_model_name always returns a model name.  Without a key,
\* when the listing raises or is empty, it is the default name; otherwise it
\* is the first listed name that contains the highest-ranked priority entry
\* contained in any listed name, and the first listed name when no entry is
\* contained in any.
C16_BestModelName ==
  bestResult # "none" =>
    LET names == argListing.names
        ranked == {p \in 1..Len(priorities) :
                     \E i \in 1..Len(names) : NameContains(names[i], priorities[p])}
    IN
    /\ bestResult \in ModelNames \cup {DefaultModel}
    /\ (~argKey \/ argListing.raised \/ names = <<>>) => bestResult = DefaultModel
    /\ (argKey /\ ~argListing.raised /\ names # <<>> /\ ranked = {}) =>
         bestResult = names[1]
    /\ (argKey /\ ~argListing.raised /\ ranked # {}) =>
         LET p == CHOOSE q \in ranked : \A r \in ranked : q <= r
             hits == {i \in 1..Len(names) : NameContains(names[i], priorities[p])}
         IN
         bestResult = names[CHOOSE i \in hits : \A j \in hits : i <= j]

\* A name matching a lower-ranked priority entry is listed first, and the
\* function returned the later name that matches a higher-ranked entry.
C16_Witness ==
  /\ argKey
  /\ argListing.names = <<"models/gemini-pro-vision", "models/gemini-1.5-flash">>
  /\ bestResult = "models/gemini-1.5-flash"


\* C17: the history handed to model.start_chat is the request's history in
\* the same order: the turns with non-empty content, each once, content
\* unchanged, role "user" kept and every other role turned into "model";
\* nothing else.
C17_HistoryConversion ==
  (reqOp = "chat" /\ chatStarted) =>
    LET kept == {i \in 1..Len(reqHistory) : reqHistory[i].content # ""}
        \* position in sentHistory of the kept turn i
        pos(i) == Cardinality({j \in kept : j <= i})
    IN
    /\ Len(sentHistory) = Cardinality(kept)
    /\ \A i \in kept :
         /\ sentHistory[pos(i)].parts = <<reqHistory[i].content>>
         /\ sentHistory[pos(i)].role =
              (IF reqHistory[i].role = "user" THEN "user" ELSE "model")

\* A history of an empty assistant turn followed by a user turn was sent as
\* the single user turn.
C17_Witness ==
  /\ reqOp = "chat"
  /\ chatStarted
  /\ reqHistory = <<[role |-> "assistant", content |-> ""],
                    [role |-> "user", content |-> "hola"]>>
  /\ sentHistory = <<[role |-> "user", parts |-> <<"hola">>]>>

\* C18: whenever the model handle is set it was built with the current
\* MODEL_NAME, so the used_model of a successful chat response is the name
\* of the model that produced it.
C18_UsedModelIsModel ==
  /\ model # "None" => model = MODEL_NAME
  /\ (reqOp = "chat" /\ respStatus = 200) =>
       /\ model # "None"
       /\ respBody.used_model = model

\* A request found model None, initialised it with a listed name other than
\* the default, and was answered by that model.
C18_Witness ==
  /\ reqOp = "chat"
  /\ respStatus = 200
  /\ reqModel = "None"
  /\ respBody.used_model = "models/gemini-pro-vision"
  /\ model = "models/gemini-pro-vision"

====
